---- MODULE Spec2Model ----
(***************************************************************************)
(* trade-data-enhancer: OHLCV bar aggregation (aggregate-data.py) and the  *)
(* ATR snippets (SP500_ATR_Calculation.py, daily_a_t_r_from_hourly_data.py,*)
(* atr_enhanced_minute_calc.py), modelled as one state machine: a CSV file *)
(* is loaded row by row, then one of the scripts runs on it.               *)
(*                                                                         *)
(* Numbers are exact rationals <<n, d>> with d > 0 in lowest terms; the    *)
(* float NaN that pandas uses for a missing value is <<0, 0>>.  Rounding   *)
(* of IEEE doubles is not modelled.  Times are epoch seconds.              *)
(***************************************************************************)
EXTENDS Integers, Sequences, FiniteSets, TLC

VARIABLES
    csv,            \* rows of the input file, in file order
    script,         \* which script has run on the file ("none" while loading)
    minute_data,    \* aggregate-data.py main: frame of load_and_process_data
    hourly_data,    \* aggregate-data.py main: aggregate_to_hourly(minute_data)
    daily_data,     \* aggregate-data.py main: aggregate_to_daily(minute_data)
    hourly_again,   \* aggregate_to_hourly applied to hourly_data
    daily_again,    \* aggregate_to_daily applied to daily_data
    df,             \* the frame an ATR snippet computes on (daily_df in the daily snippet)
    period,         \* PERIOD / the period argument used by the ATR snippet (0: none)
    true_range,     \* the true_range column / tr series of the snippet
    atr_values,     \* the ATR column the snippet produced
    timeframe,      \* process_data: its timeframe argument ("" when not run)
    error,          \* the exception that ended the script ("none" if it completed)
    output_file     \* process_data: whether to_csv has written the file, and its rows

vars == <<csv, script, minute_data, hourly_data, daily_data, hourly_again,
          daily_again, df, period, true_range, atr_values, timeframe, error,
          output_file>>

(***************************************************************************)
(* Bounds of the model.                                                    *)
(***************************************************************************)
MaxBars == 3        \* rows in the input file
MaxPrice == 2       \* price levels a row is drawn from
MaxPeriod == 3      \* largest ATR period tried on the file (smallest is 2)

(***************************************************************************)
(* Time.                                                                   *)
(***************************************************************************)
Hour == 3600        \* resample('h') / resample('H')
Day == 86400        \* resample('D')

\* Distance between consecutive rows of the file: the next minute, the next
\* hour, the next day, and two days later (which leaves a whole day empty).
Gaps == {60, Hour, Day, 2 * Day}

(***************************************************************************)
(* Float arithmetic with NaN.                                              *)
(***************************************************************************)
NaN == <<0, 0>>

isna(v) == v[2] = 0

RECURSIVE GCD(_, _)
GCD(a, b) == IF b = 0 THEN a ELSE GCD(b, a % b)

AbsInt(n) == IF n < 0 THEN -n ELSE n

Norm(n, d) ==
    IF d = 0 THEN NaN
    ELSE LET g == GCD(AbsInt(n), d) IN <<n \div g, d \div g>>

Num(n) == <<n, 1>>

\* a - b
Sub(a, b) == IF isna(a) \/ isna(b) THEN NaN
             ELSE Norm(a[1] * b[2] - b[1] * a[2], a[2] * b[2])

\* a + b
Add(a, b) == IF isna(a) \/ isna(b) THEN NaN
             ELSE Norm(a[1] * b[2] + b[1] * a[2], a[2] * b[2])

\* a * k for an integer k
MulInt(a, k) == IF isna(a) THEN NaN ELSE Norm(a[1] * k, a[2])

\* a / k for an integer k > 0
DivInt(a, k) == IF isna(a) THEN NaN ELSE Norm(a[1], a[2] * k)

\* a <= b on numbers (neither is NaN)
Le(a, b) == a[1] * b[2] <= b[1] * a[2]

\* Series.abs() / np.abs
abs(a) == IF isna(a) THEN NaN ELSE <<AbsInt(a[1]), a[2]>>

\* np.maximum: NaN if either argument is NaN
np_maximum(a, b) ==
    IF isna(a) \/ isna(b) THEN NaN ELSE IF Le(a, b) THEN b ELSE a

(***************************************************************************)
(* pandas reductions over a column (a sequence of numbers); all skip NaN.  *)
(***************************************************************************)
notna(v) == ~isna(v)

dropna_values(col) == SelectSeq(col, notna)

\* 'first': the first value that is not NaN, NaN if there is none
first(col) ==
    LET nn == dropna_values(col) IN IF nn = <<>> THEN NaN ELSE Head(nn)

last_as_first(col) ==
    LET nn == dropna_values(col) IN IF nn = <<>> THEN NaN ELSE nn[1]

\* 'last': the last value that is not NaN, NaN if there is none
last(col) ==
    LET nn == dropna_values(col) IN IF nn = <<>> THEN NaN ELSE nn[Len(nn)]

RECURSIVE FoldMax(_, _)
FoldMax(nn, acc) ==
    IF nn = <<>> THEN acc
    ELSE FoldMax(Tail(nn), IF Le(acc, Head(nn)) THEN Head(nn) ELSE acc)

RECURSIVE FoldMin(_, _)
FoldMin(nn, acc) ==
    IF nn = <<>> THEN acc
    ELSE FoldMin(Tail(nn), IF Le(Head(nn), acc) THEN Head(nn) ELSE acc)

\* 'max' / DataFrame.max(axis=1): the largest value that is not NaN
max(col) ==
    LET nn == dropna_values(col) IN
    IF nn = <<>> THEN NaN ELSE FoldMax(Tail(nn), Head(nn))

\* 'min': the smallest value that is not NaN
min(col) ==
    LET nn == dropna_values(col) IN
    IF nn = <<>> THEN NaN ELSE FoldMin(Tail(nn), Head(nn))

RECURSIVE FoldAdd(_, _)
FoldAdd(nn, acc) ==
    IF nn = <<>> THEN acc ELSE FoldAdd(Tail(nn), Add(acc, Head(nn)))

\* 'sum': the sum of the values that are not NaN, 0 if there is none
sum(col) == FoldAdd(dropna_values(col), Num(0))

\* Series.mean(): the mean of the values that are not NaN, NaN if there is none
mean(col) ==
    LET nn == dropna_values(col) IN
    IF nn = <<>> THEN NaN ELSE DivInt(FoldAdd(nn, Num(0)), Len(nn))

\* frame[name] as a sequence
Column(frame, name) == [i \in 1..Len(frame) |-> frame[i][name]]

(***************************************************************************)
(* The input file.  Row(t, x, blank) is a row at time t at price level x;  *)
(* a blank row has its timestamp but empty numeric cells, which read_csv   *)
(* and to_numeric(errors='coerce') turn into NaN.                          *)
(***************************************************************************)
Row(t, x, blank) ==
    IF blank
    THEN [t |-> t, open |-> NaN, high |-> NaN, low |-> NaN, close |-> NaN,
          volume |-> NaN]
    ELSE [t |-> t, open |-> Num(2 * x - 1), high |-> Num(2 * x + 1),
          low |-> Num(2 * x - 1), close |-> Num(2 * x), volume |-> Num(x)]

\* DataFrame.sort_index / sort_values on the time column (insertion sort, stable)
RECURSIVE Insert(_, _, _)
Insert(sorted, row, key) ==
    IF sorted = <<>> THEN <<row>>
    ELSE IF sorted[Len(sorted)][key] <= row[key] THEN Append(sorted, row)
    ELSE Append(Insert(SubSeq(sorted, 1, Len(sorted) - 1), row, key),
                sorted[Len(sorted)])

RECURSIVE SortBy(_, _)
SortBy(frame, key) ==
    IF frame = <<>> THEN <<>>
    ELSE Insert(SortBy(SubSeq(frame, 1, Len(frame) - 1), key),
                frame[Len(frame)], key)

(***************************************************************************)
(* resample: the bins run from the bin of the first row to the bin of the  *)
(* last row, every bin in between included, each with the rows in it.      *)
(***************************************************************************)
Floor_label_right(t, freq) == t - (t % freq) + freq

\* the bin of a time: the time floored to the frequency
Floor(t, freq) == t - (t % freq)

Bins(frame, key, freq) ==
    IF frame = <<>> THEN <<>>
    ELSE LET lo == Floor(frame[1][key], freq)
             hi == Floor(frame[Len(frame)][key], freq)
         IN [k \in 1..((hi - lo) \div freq + 1) |-> lo + (k - 1) * freq]

RowsIn(frame, key, freq, bin) ==
    LET InBin(row) == Floor(row[key], freq) = bin IN SelectSeq(frame, InBin)

\* DataFrame.dropna(): the rows none of whose columns `cols` is NaN
dropna(frame, cols) ==
    LET Complete(row) == \A c \in cols : notna(row[c]) IN
    SelectSeq(frame, Complete)

(***************************************************************************)
(* aggregate-data.py                                                       *)
(***************************************************************************)
\* load_and_process_data: DateTime index, Timestamp in epoch seconds, the
\* OHLCV columns, sorted by DateTime.
load_and_process_data(file) ==
    SortBy([i \in 1..Len(file) |->
               [DateTime |-> file[i].t, Timestamp |-> Num(file[i].t),
                Open |-> file[i].open, High |-> file[i].high,
                Low |-> file[i].low, Close |-> file[i].close,
                Volume |-> file[i].volume]],
           "DateTime")

OHLCV == {"Timestamp", "Open", "High", "Low", "Close", "Volume"}

\* df.resample(freq).agg({...}) of aggregate_to_hourly / aggregate_to_daily
resample_agg(frame, freq) ==
    LET bins == Bins(frame, "DateTime", freq) IN
    [k \in 1..Len(bins) |->
        LET g == RowsIn(frame, "DateTime", freq, bins[k]) IN
        [DateTime |-> bins[k],
         Timestamp |-> first(Column(g, "Timestamp")),
         Open |-> first(Column(g, "Open")),
         High |-> max(Column(g, "High")),
         Low |-> min(Column(g, "Low")),
         Close |-> last(Column(g, "Close")),
         Volume |-> sum(Column(g, "Volume"))]]

aggregate_to_hourly(frame) == dropna(resample_agg(frame, Hour), OHLCV)

aggregate_to_daily(frame) == dropna(resample_agg(frame, Day), OHLCV)

(***************************************************************************)
(* SP500_ATR_Calculation.py and daily_a_t_r_from_hourly_data.py            *)
(***************************************************************************)
\* Series.shift(1)
shift(col) == [i \in 1..Len(col) |-> IF i = 1 THEN NaN ELSE col[i - 1]]

\* Series.fillna(other)
fillna(v, other) == IF isna(v) THEN other ELSE v

\* the true_range column: prev_close, range, tr_diff_high, tr_diff_low, their
\* row-wise max (which skips NaN), then fillna(range)
true_range_column(frame) ==
    LET prev_close == shift(Column(frame, "close")) IN
    [i \in 1..Len(frame) |->
        LET range == Sub(frame[i].high, frame[i].low)
            tr_diff_high == abs(Sub(frame[i].high, prev_close[i]))
            tr_diff_low == abs(Sub(frame[i].low, prev_close[i]))
        IN fillna(max(<<range, tr_diff_high, tr_diff_low>>), range)]

\* the window mean in place of the recursion on the previous ATR
RECURSIVE wilder_loop_window(_, _, _, _)
wilder_loop_window(atr, tr, P, i) ==
    IF i > Len(tr) THEN atr
    ELSE wilder_loop_window(
             [atr EXCEPT ![i] = mean(SubSeq(tr, i - P + 1, i))], tr, P, i + 1)

\* the loop `for i in range(PERIOD, len(df))`, i counted from 1 here
RECURSIVE wilder_loop(_, _, _, _)
wilder_loop(atr, tr, P, i) ==
    IF i > Len(tr) THEN atr
    ELSE LET previous_atr == atr[i - 1]
             current_tr == tr[i]
         IN wilder_loop(
                [atr EXCEPT ![i] = DivInt(Add(MulInt(previous_atr, P - 1),
                                              current_tr), P)],
                tr, P, i + 1)

\* without the guard `len(df) >= PERIOD`: a short frame is averaged whole
wilder_atr_unguarded(tr, P) ==
    LET nans == [i \in 1..Len(tr) |-> NaN] IN
    IF Len(tr) >= P
    THEN wilder_loop([nans EXCEPT ![P] = mean(SubSeq(tr, 1, P))], tr, P, P + 1)
    ELSE IF tr = <<>> THEN nans
    ELSE [nans EXCEPT ![Len(tr)] = mean(tr)]

\* atr_values: [np.nan] * len(df), the seed at PERIOD - 1, then the loop
wilder_atr(tr, P) ==
    LET nans == [i \in 1..Len(tr) |-> NaN] IN
    IF Len(tr) >= P
    THEN LET initial_atr == mean(SubSeq(tr, 1, P)) IN
         wilder_loop([nans EXCEPT ![P] = initial_atr], tr, P, P + 1)
    ELSE nans

\* SP500_ATR_Calculation.py: the frame read from the file, in file order
sp500_df(file) ==
    [i \in 1..Len(file) |->
        [dateTime |-> file[i].t, open |-> file[i].open, high |-> file[i].high,
         low |-> file[i].low, close |-> file[i].close]]

\* daily_a_t_r_from_hourly_data.py: sort, then resample('D').agg({...})
\* followed by reset_index(); no dropna, so every day from the first to the
\* last is a row
daily_resample(file) ==
    LET frame == SortBy([i \in 1..Len(file) |->
                            [dateTime |-> file[i].t, open |-> file[i].open,
                             high |-> file[i].high, low |-> file[i].low,
                             close |-> file[i].close,
                             volume |-> file[i].volume]], "dateTime")
        bins == Bins(frame, "dateTime", Day)
    IN [k \in 1..Len(bins) |->
           LET g == RowsIn(frame, "dateTime", Day, bins[k]) IN
           [dateTime |-> bins[k],
            open |-> first(Column(g, "open")),
            high |-> max(Column(g, "high")),
            low |-> min(Column(g, "low")),
            close |-> last(Column(g, "close")),
            volume |-> sum(Column(g, "volume"))]]

(***************************************************************************)
(* atr_enhanced_minute_calc.py                                             *)
(***************************************************************************)
\* the tr series of calculate_atr: np.maximum keeps NaN
calculate_atr_tr(high, low, close) ==
    LET prev == shift(close) IN
    [i \in 1..Len(high) |->
        np_maximum(Sub(high[i], low[i]),
                   np_maximum(abs(Sub(high[i], prev[i])),
                              abs(Sub(low[i], prev[i]))))]

\* Series.rolling(window).mean(): NaN until the window is full, and NaN while
\* the window holds a NaN (min_periods defaults to the window)
rolling_mean(col, window) ==
    [i \in 1..Len(col) |->
        IF i < window THEN NaN
        ELSE LET w == SubSeq(col, i - window + 1, i) IN
             IF \E j \in 1..window : isna(w[j]) THEN NaN
             ELSE DivInt(FoldAdd(w, Num(0)), window)]

calculate_atr(high, low, close, P) ==
    rolling_mean(calculate_atr_tr(high, low, close), P)

\* with a default in place of the raise
determine_period_default_daily(tf) ==
    IF tf = "minute" THEN [exception |-> "none", result |-> 1440 * 14]
    ELSE IF tf = "hourly" THEN [exception |-> "none", result |-> 24 * 14]
    ELSE [exception |-> "none", result |-> 14]

\* determine_period_for_14_days: the period, or the ValueError it raises
determine_period_for_14_days(tf) ==
    IF tf = "minute" THEN [exception |-> "none", result |-> 1440 * 14]
    ELSE IF tf = "hourly" THEN [exception |-> "none", result |-> 24 * 14]
    ELSE IF tf = "daily" THEN [exception |-> "none", result |-> 14]
    ELSE [exception |-> "ValueError: Unsupported timeframe", result |-> 0]

\* process_data: df.resample(freq, on='dateTime').agg({...}).dropna()
process_resample(frame, freq) ==
    LET bins == Bins(frame, "dateTime", freq) IN
    dropna([k \in 1..Len(bins) |->
               LET g == RowsIn(frame, "dateTime", freq, bins[k]) IN
               [dateTime |-> bins[k],
                high |-> max(Column(g, "high")),
                low |-> min(Column(g, "low")),
                close |-> last(Column(g, "close"))]],
           {"high", "low", "close"})

\* process_data: the frame after the optional resampling
process_frame(file, tf) ==
    LET frame == [i \in 1..Len(file) |->
                     [dateTime |-> file[i].t, high |-> file[i].high,
                      low |-> file[i].low, close |-> file[i].close]]
    IN IF tf = "hourly" THEN process_resample(frame, Hour)
       ELSE IF tf = "daily" THEN process_resample(frame, Day)
       ELSE frame

Timeframes == {"minute", "hourly", "daily", "weekly"}

\* The two Wilder snippets fix PERIOD = 14 and calculate_atr takes its period
\* as an argument; the code is the same for every period and runs here for
\* the periods 2..MaxPeriod (process_data uses the periods of its lookup).
Periods == 2..MaxPeriod

Unwritten == [written |-> FALSE, rows |-> <<>>]

(***************************************************************************)
(* The state machine.                                                      *)
(***************************************************************************)
Init ==
    /\ csv = <<>>
    /\ script = "none"
    /\ minute_data = <<>>
    /\ hourly_data = <<>>
    /\ daily_data = <<>>
    /\ hourly_again = <<>>
    /\ daily_again = <<>>
    /\ df = <<>>
    /\ period = 0
    /\ true_range = <<>>
    /\ atr_values = <<>>
    /\ timeframe = ""
    /\ error = "none"
    /\ output_file = Unwritten

\* One more row of the input file, later than the rows before it.  The
\* first row is at time 0; a blank row has no price level to choose.
LoadRow ==
    /\ script = "none"
    /\ Len(csv) < MaxBars
    /\ \E x \in 1..MaxPrice, blank \in BOOLEAN, gap \in Gaps :
          /\ blank => x = 1
          /\ gap /= 60 => csv /= <<>>
          /\ LET t == IF csv = <<>> THEN 0 ELSE csv[Len(csv)].t + gap
             IN csv' = Append(csv, Row(t, x, blank))
    /\ UNCHANGED <<script, minute_data, hourly_data, daily_data, hourly_again,
                   daily_again, df, period, true_range, atr_values, timeframe,
                   error, output_file>>

\* aggregate-data.py main: load, aggregate to hourly and to daily
Main ==
    /\ script = "none"
    /\ script' = "aggregate-data"
    /\ minute_data' = load_and_process_data(csv)
    /\ hourly_data' = aggregate_to_hourly(minute_data')
    /\ daily_data' = aggregate_to_daily(minute_data')
    /\ UNCHANGED <<csv, hourly_again, daily_again, df, period, true_range,
                   atr_values, timeframe, error, output_file>>

\* the aggregators applied to their own output
Reaggregate ==
    /\ script = "aggregate-data"
    /\ script' = "aggregate-data again"
    /\ hourly_again' = aggregate_to_hourly(hourly_data)
    /\ daily_again' = aggregate_to_daily(daily_data)
    /\ UNCHANGED <<csv, minute_data, hourly_data, daily_data, df, period,
                   true_range, atr_values, timeframe, error, output_file>>

\* SP500_ATR_Calculation.py
SP500_ATR_Calculation ==
    /\ script = "none"
    /\ script' = "SP500_ATR_Calculation"
    /\ \E P \in Periods :
          /\ period' = P
          /\ df' = sp500_df(csv)
          /\ true_range' = true_range_column(df')
          /\ atr_values' = wilder_atr(true_range', P)
    /\ UNCHANGED <<csv, minute_data, hourly_data, daily_data, hourly_again,
                   daily_again, timeframe, error, output_file>>

\* daily_a_t_r_from_hourly_data.py
daily_a_t_r_from_hourly_data ==
    /\ script = "none"
    /\ script' = "daily_a_t_r_from_hourly_data"
    /\ \E P \in Periods :
          /\ period' = P
          /\ df' = daily_resample(csv)
          /\ true_range' = true_range_column(df')
          /\ atr_values' = wilder_atr(true_range', P)
    /\ UNCHANGED <<csv, minute_data, hourly_data, daily_data, hourly_again,
                   daily_again, timeframe, error, output_file>>

\* calculate_atr(df['high'], df['low'], df['close'], period) on the file's rows
CalculateAtr ==
    /\ script = "none"
    /\ script' = "calculate_atr"
    /\ \E P \in Periods :
          /\ period' = P
          /\ df' = process_frame(csv, "minute")
          /\ true_range' = calculate_atr_tr(Column(df', "high"),
                               Column(df', "low"), Column(df', "close"))
          /\ atr_values' = calculate_atr(Column(df', "high"),
                               Column(df', "low"), Column(df', "close"), P)
    /\ UNCHANGED <<csv, minute_data, hourly_data, daily_data, hourly_again,
                   daily_again, timeframe, error, output_file>>

\* process_data(file_path, timeframe, output_file) on a file that lacks one of
\* the required columns
ProcessDataMissingColumn ==
    /\ script = "none"
    /\ script' = "process_data"
    /\ \E tf \in Timeframes : timeframe' = tf
    /\ error' = "ValueError: CSV must contain the required columns"
    /\ UNCHANGED <<csv, minute_data, hourly_data, daily_data, hourly_again,
                   daily_again, df, period, true_range, atr_values,
                   output_file>>

\* process_data(file_path, timeframe, output_file)
ProcessData ==
    /\ script = "none"
    /\ script' = "process_data"
    /\ \E tf \in Timeframes :
          /\ timeframe' = tf
          /\ df' = process_frame(csv, tf)
          /\ LET p == determine_period_for_14_days(tf) IN
             IF p.exception /= "none"
             THEN /\ error' = p.exception
                  /\ UNCHANGED <<period, true_range, atr_values, output_file>>
             ELSE /\ error' = "none"
                  /\ period' = p.result
                  /\ true_range' = calculate_atr_tr(Column(df', "high"),
                         Column(df', "low"), Column(df', "close"))
                  /\ atr_values' = calculate_atr(Column(df', "high"),
                         Column(df', "low"), Column(df', "close"), period')
                  /\ output_file' =
                         [written |-> TRUE,
                          rows |-> [i \in 1..Len(df') |->
                              [row |-> df'[i],
                               new_14_day_atr |-> atr_values'[i]]]]
    /\ UNCHANGED <<csv, minute_data, hourly_data, daily_data, hourly_again,
                   daily_again>>

Next ==
    \/ LoadRow
    \/ Main
    \/ Reaggregate
    \/ SP500_ATR_Calculation
    \/ daily_a_t_r_from_hourly_data
    \/ CalculateAtr
    \/ ProcessDataMissingColumn
    \/ ProcessData

Spec == Init /\ [][Next]_vars

(***************************************************************************)
(* Vocabulary of the properties.                                           *)
(***************************************************************************)
\* time t lies in the bucket that starts at `bin`
InBucket(t, bin, freq) == bin % freq = 0 /\ bin <= t /\ t < bin + freq

\* the rows of `src` in the bucket of row `r` of `out`
SourceBars(out, okey, r, src, skey, freq) ==
    {i \in 1..Len(src) : InBucket(src[i][skey], out[r][okey], freq)}

\* a <= b where both are numbers
Leq(a, b) == notna(a) /\ notna(b) /\ Le(a, b)

MinOf(S) == CHOOSE i \in S : \A j \in S : i <= j
MaxOf(S) == CHOOSE i \in S : \A j \in S : j <= i

\* the sum of col[i] over i in S, NaN if one of them is NaN
RECURSIVE SumOver(_, _)
SumOver(col, S) ==
    IF S = {} THEN Num(0)
    ELSE LET i == MaxOf(S) IN Add(SumOver(col, S \ {i}), col[i])

\* the indices of col in S whose value is a number
Present(col, S) == {i \in S : notna(col[i])}

Cap == [t |-> "DateTime", open |-> "Open", high |-> "High", low |-> "Low",
        close |-> "Close", volume |-> "Volume"]
Low == [t |-> "dateTime", open |-> "open", high |-> "high", low |-> "low",
        close |-> "close", volume |-> "volume"]

Clean(file) == \A i \in 1..Len(file) : notna(file[i].high)

IsWilderScript ==
    script \in {"SP500_ATR_Calculation", "daily_a_t_r_from_hourly_data"}
IsRollingScript ==
    \/ script = "calculate_atr"
    \/ script = "process_data" /\ error = "none"
IsAtrScript == IsWilderScript \/ IsRollingScript

\* the True Range of row i as the specification defines it
ClaimTR(frame, i) ==
    LET range == Sub(frame[i].high, frame[i].low) IN
    IF i = 1 THEN range
    ELSE LET dh == abs(Sub(frame[i].high, frame[i - 1].close))
             dl == abs(Sub(frame[i].low, frame[i - 1].close))
             m == IF Le(dh, dl) THEN dl ELSE dh
         IN IF Le(range, m) THEN m ELSE range

RowIsNumbers(frame, i) ==
    notna(frame[i].high) /\ notna(frame[i].low) /\ notna(frame[i].close)

(***************************************************************************)
(* C1.  OHLC correctness.                                                  *)
(***************************************************************************)
\* The statement with open and close read off the earliest and the latest
\* source bar of the bucket, whatever those bars hold; the maximum, the
\* minimum and the sum range over the values that are present.
LiteralOHLC(out, src, c, freq) ==
    \A r \in 1..Len(out) :
        LET S == SourceBars(out, c.t, r, src, c.t, freq)
            H == Present(Column(src, c.high), S)
            L == Present(Column(src, c.low), S)
            V == Present(Column(src, c.volume), S)
        IN S /= {} =>
            /\ out[r][c.open] = src[MinOf(S)][c.open]
            /\ out[r][c.close] = src[MaxOf(S)][c.close]
            /\ \E i \in S : out[r][c.high] = src[i][c.high]
            /\ \A i \in H : Leq(src[i][c.high], out[r][c.high])
            /\ \E i \in S : out[r][c.low] = src[i][c.low]
            /\ \A i \in L : Leq(out[r][c.low], src[i][c.low])
            /\ out[r][c.volume] = SumOver(Column(src, c.volume), V)

\* The statement over the fields that are present.
PresentOHLC(out, src, c, freq) ==
    \A r \in 1..Len(out) :
        LET S == SourceBars(out, c.t, r, src, c.t, freq)
            O == Present(Column(src, c.open), S)
            H == Present(Column(src, c.high), S)
            L == Present(Column(src, c.low), S)
            Cl == Present(Column(src, c.close), S)
            V == Present(Column(src, c.volume), S)
        IN /\ out[r][c.open] = IF O = {} THEN NaN ELSE src[MinOf(O)][c.open]
           /\ out[r][c.close] =
                  IF Cl = {} THEN NaN ELSE src[MaxOf(Cl)][c.close]
           /\ IF H = {} THEN isna(out[r][c.high])
              ELSE /\ \E i \in H : out[r][c.high] = src[i][c.high]
                   /\ \A i \in H : Le(src[i][c.high], out[r][c.high])
           /\ IF L = {} THEN isna(out[r][c.low])
              ELSE /\ \E i \in L : out[r][c.low] = src[i][c.low]
                   /\ \A i \in L : Le(out[r][c.low], src[i][c.low])
           /\ out[r][c.volume] = SumOver(Column(src, c.volume), V)

\* C1 as stated: in every bucket the aggregators emit (aggregate_to_hourly,
\* aggregate_to_daily, the daily resample of daily_a_t_r_from_hourly_data),
\* high is the maximum of the source highs, low the minimum of the source
\* lows, open the open of the earliest source bar, close the close of the
\* latest source bar and volume the sum of the source volumes.
C1_OhlcOfSourceBars ==
    /\ script = "aggregate-data" =>
          /\ LiteralOHLC(hourly_data, minute_data, Cap, Hour)
          /\ LiteralOHLC(daily_data, minute_data, Cap, Day)
    /\ script = "daily_a_t_r_from_hourly_data" =>
          LiteralOHLC(df, [i \in 1..Len(csv) |->
                              csv[i] @@ [dateTime |-> csv[i].t]], Low, Day)

\* C1 as amended: in every emitted bucket, high is the maximum of the source
\* highs that are present, low the minimum of the lows that are present, open
\* the first open that is present, close the last close that is present,
\* volume the sum of the volumes that are present; a price none of the source
\* bars has is absent in the output.
C1_OhlcOfPresentFields ==
    /\ script = "aggregate-data" =>
          /\ PresentOHLC(hourly_data, minute_data, Cap, Hour)
          /\ PresentOHLC(daily_data, minute_data, Cap, Day)
    /\ script = "daily_a_t_r_from_hourly_data" =>
          PresentOHLC(df, [i \in 1..Len(csv) |->
                              csv[i] @@ [dateTime |-> csv[i].t]], Low, Day)

\* a day bucket of three bars whose earliest bar has no prices
C1_Witness ==
    /\ script = "aggregate-data"
    /\ Len(minute_data) = 3
    /\ Len(daily_data) = 1
    /\ isna(minute_data[1].Open)
    /\ notna(daily_data[1].Open)
    /\ daily_data[1].Open /= Num(1)
    /\ Len(hourly_data) = 2

(***************************************************************************)
(* C2.  No bar for an empty bucket.                                        *)
(***************************************************************************)
NoEmptyBucket(out, okey, src, skey, freq) ==
    \A r \in 1..Len(out) : SourceBars(out, okey, r, src, skey, freq) /= {}

\* C2: every aggregation path emits a bar only for a bucket that holds at
\* least one source bar; a skipped hour or day has no bar in the output.
C2_NoBarForEmptyBucket ==
    /\ script = "aggregate-data" =>
          /\ NoEmptyBucket(hourly_data, "DateTime", minute_data, "DateTime",
                           Hour)
          /\ NoEmptyBucket(daily_data, "DateTime", minute_data, "DateTime",
                           Day)
    /\ script = "daily_a_t_r_from_hourly_data" =>
          NoEmptyBucket(df, "dateTime", csv, "t", Day)
    /\ script = "process_data" /\ timeframe = "hourly" =>
          NoEmptyBucket(df, "dateTime", csv, "t", Hour)
    /\ script = "process_data" /\ timeframe = "daily" =>
          NoEmptyBucket(df, "dateTime", csv, "t", Day)

(***************************************************************************)
(* C3.  True Range.                                                        *)
(***************************************************************************)
\* C3: in every ATR computation the True Range of the first bar is
\* high - low, a defined value, and the True Range of a later bar is
\* max(high - low, |high - previous close|, |low - previous close|).
C3_TrueRange ==
    IsAtrScript =>
        \A i \in 1..Len(df) :
            /\ i = 1 /\ notna(df[1].high) /\ notna(df[1].low) =>
                  /\ notna(true_range[1])
                  /\ true_range[1] = Sub(df[1].high, df[1].low)
            /\ i > 1 /\ RowIsNumbers(df, i) /\ RowIsNumbers(df, i - 1) =>
                  true_range[i] = ClaimTR(df, i)

(***************************************************************************)
(* C4.  The seed.                                                          *)
(***************************************************************************)
\* C4: with at least `period` bars, the ATR at index period - 1 is the
\* arithmetic mean of the first `period` True Range values, the first of
\* them being high[0] - low[0], in every ATR routine.
C4_SeedIsMeanOfFirstPeriod ==
    IsAtrScript /\ Len(df) >= period
        /\ (\A i \in 1..period : RowIsNumbers(df, i)) =>
        MulInt(atr_values[period], period) =
            SumOver([i \in 1..period |-> ClaimTR(df, i)], 1..period)

(***************************************************************************)
(* C5.  Wilder's recursion.                                                *)
(***************************************************************************)
WilderStep(i) ==
    MulInt(atr_values[i], period) =
        Add(MulInt(atr_values[i - 1], period - 1), true_range[i])

WindowMean(i) ==
    DivInt(SumOver(true_range, (i - period + 1)..i), period)

C6_AbsentDuringWarmUp ==
    /\ script \in {"SP500_ATR_Calculation", "daily_a_t_r_from_hourly_data",
                   "calculate_atr"} => error = "none"
    /\ IsAtrScript =>
          /\ Len(atr_values) = Len(df)
          /\ \A i \in 1..Len(atr_values) : i < period => isna(atr_values[i])
          /\ Len(df) < period =>
                \A i \in 1..Len(atr_values) : isna(atr_values[i])

\* a frame of period - 1 bars with numbers in them
C6_Witness ==
    /\ IsWilderScript
    /\ Len(df) = period - 1
    /\ Len(df) >= 2
    /\ \A i \in 1..Len(df) : notna(true_range[i]) /\ isna(atr_values[i])

(***************************************************************************)
(* C7.  The period lookup.                                                 *)
(***************************************************************************)
\* C7: determine_period_for_14_days gives 20160 for 'minute', 336 for
\* 'hourly', 14 for 'daily' and fails for any other timeframe; in
\* process_data that failure comes before an ATR is computed or a file is
\* written.
C7_PeriodLookupIsClosed ==
    /\ determine_period_for_14_days("minute") =
           [exception |-> "none", result |-> 20160]
    /\ determine_period_for_14_days("hourly") =
           [exception |-> "none", result |-> 336]
    /\ determine_period_for_14_days("daily") =
           [exception |-> "none", result |-> 14]
    /\ \A tf \in Timeframes \ {"minute", "hourly", "daily"} :
           determine_period_for_14_days(tf).exception =
               "ValueError: Unsupported timeframe"
    /\ script = "process_data" =>
          /\ error = "none" =>
                /\ timeframe \in {"minute", "hourly", "daily"}
                /\ period = determine_period_for_14_days(timeframe).result
                /\ output_file.written
          /\ timeframe \notin {"minute", "hourly", "daily"} =>
                /\ error \in
                       {"ValueError: Unsupported timeframe",
                        "ValueError: CSV must contain the required columns"}
                /\ period = 0
                /\ atr_values = <<>>
                /\ ~output_file.written

\* process_data('weekly') on a file that has the columns and some rows
C7_Witness ==
    /\ script = "process_data"
    /\ timeframe = "weekly"
    /\ error = "ValueError: Unsupported timeframe"
    /\ Len(df) >= 2

(***************************************************************************)
(* C8.  Bucket coverage.                                                   *)
(***************************************************************************)
Covered(out, src, freq) ==
    /\ \A i \in 1..Len(src) :
          Cardinality({r \in 1..Len(out) :
              InBucket(src[i].DateTime, out[r].DateTime, freq)}) = 1
    /\ SumOver(Column(out, "Volume"), 1..Len(out)) =
           SumOver(Column(src, "Volume"),
                   Present(Column(src, "Volume"), 1..Len(src)))

\* C8: every input bar of aggregate_to_hourly / aggregate_to_daily lies in
\* exactly one emitted bucket, also when a source bar has an absent field,
\* and the output volumes add up to the input volumes.
C8_EveryBarInOneBucket ==
    script = "aggregate-data" =>
        /\ Covered(hourly_data, minute_data, Hour)
        /\ Covered(daily_data, minute_data, Day)

(***************************************************************************)
(* C9.  Idempotence.                                                       *)
(***************************************************************************)
\* C9: aggregating the hourly bars to hourly again, or the daily bars to
\* daily again, gives the same bars: as many, with the same Timestamp,
\* Open, High, Low, Close and Volume.
C9_AggregationIsIdempotent ==
    script = "aggregate-data again" =>
        /\ hourly_again = hourly_data
        /\ daily_again = daily_data

\* bars of two hours were merged, and aggregated a second time
C9_Witness ==
    /\ script = "aggregate-data again"
    /\ Len(minute_data) = 3
    /\ Len(hourly_data) = 2
    /\ Len(hourly_again) = 2
    /\ Len(daily_again) = 1

(***************************************************************************)
(* C10.  No absent ATR after the warm-up.                                  *)
(***************************************************************************)
\* C10: once the warm-up is over the ATR is never absent again; in the
\* daily-from-hourly pipeline a day without hourly bars does not make the
\* ATR of that day or of a later day absent.
C10_DefinedAfterWarmUp ==
    IsWilderScript /\ Clean(csv) /\ Len(df) >= period =>
        \A i \in period..Len(atr_values) : notna(atr_values[i])

====
